---- MODULE Spec2Model ----
(***************************************************************************)
(* A model of build.mjs, the build script of the Traveler demo: it packs   *)
(* src.js with RegPack, keeps the smallest packed candidate, reports its   *)
(* size against a 1024-byte budget on stderr and writes build/demo.js and  *)
(* build/demo.html.                                                        *)
(*                                                                         *)
(* A JavaScript string is a sequence of Unicode code points; a Buffer is a *)
(* sequence of bytes; an optional value (undefined, or a value) is the     *)
(* empty sequence or a one-element sequence.                               *)
(***************************************************************************)
EXTENDS Integers, Sequences, FiniteSets, TLC

VARIABLES
    pc,        \* position of main()/build() in its code
    exitCode,  \* the process's exit status
    logged,    \* console.error(e) has run
    failed,    \* the stage that threw ("" while nothing has thrown)
    buildDir,  \* what is at path('build'): "absent", "dir" or "file"
    rd,        \* the two readFile promises of build()
    shim,      \* contents read from shim.html
    pending,   \* what the runPacker generator has yet to yield
    seen,      \* the outputs compressSource's loop has consumed, in order
    text,      \* compressSource's local text (optional string)
    buf,       \* compressSource's local buf (optional Buffer)
    stderr,    \* what printStats has written to process.stderr
    html,      \* the document buildHTML returned (optional string)
    wr,        \* the two writeFile promises of build()
    files,     \* build/demo.js and build/demo.html on disk
    call,      \* a pending call of one of the pure functions
    ret        \* what that call returned or threw

vars == <<pc, exitCode, logged, failed, buildDir, rd, shim, pending, seen,
          text, buf, stderr, html, wr, files, call, ret>>

mainVars == <<pc, exitCode, logged, failed, buildDir, rd, shim, pending, seen,
              text, buf, stderr, html, wr, files>>

None == <<>>
Some(x) == <<x>>

-----------------------------------------------------------------------------
(* Strings and buffers *)

\* String.prototype.length: UTF-16 code units.
JsLength(s) == Len(s) + Cardinality({i \in 1..Len(s) : s[i] >= 65536})

\* The UTF-8 encoding of one code point.
Utf8Char(cp) ==
    IF cp < 128 THEN <<cp>>
    ELSE IF cp < 2048 THEN <<192 + (cp \div 64), 128 + (cp % 64)>>
    ELSE IF cp < 65536
         THEN <<224 + (cp \div 4096), 128 + ((cp \div 64) % 64), 128 + (cp % 64)>>
    ELSE <<240 + (cp \div 262144), 128 + ((cp \div 4096) % 64),
           128 + ((cp \div 64) % 64), 128 + (cp % 64)>>

\* Buffer.from(s, 'utf8')
RECURSIVE BufferFromUtf8(_)
BufferFromUtf8(s) ==
    IF s = <<>> THEN <<>> ELSE Utf8Char(Head(s)) \o BufferFromUtf8(Tail(s))

RECURSIVE Reverse(_)
Reverse(s) == IF s = <<>> THEN <<>> ELSE Append(Reverse(Tail(s)), Head(s))

RECURSIVE Concat(_)
Concat(ss) == IF ss = <<>> THEN <<>> ELSE Head(ss) \o Concat(Tail(ss))

SeqsUpTo(S, n) == UNION {[1..k -> S] : k \in 0..n}

-----------------------------------------------------------------------------
(* Candidate selection: runPacker and compressSource *)

MaxYield == 3

\* The strings RegPack may propose: "abc", the euro sign (one character, three
\* bytes), two e-acute (two characters, four bytes) and the empty string.
CandidateTexts == {<<97, 98, 99>>, <<8364>>, <<233, 233>>, <<>>}

\* The methods whose yields are q[s..], a new method starting at s and at
\* every index of B: each method carries its contents and the strings
\* result[i][1] of its result list, which runPacker reads from the end.
RECURSIVE MethodsFrom(_, _, _)
MethodsFrom(q, B, s) ==
    IF s > Len(q) THEN <<>>
    ELSE LET later == {b \in B : b > s /\ b <= Len(q)}
             e == IF later = {} THEN Len(q)
                  ELSE (CHOOSE b \in later : \A c \in later : b <= c) - 1
         IN  <<[contents |-> q[s], result |-> Reverse(SubSeq(q, s + 1, e))]>>
             \o MethodsFrom(q, B, e + 1)

\* What packer.runPacker may return: any methods yielding at most MaxYield
\* strings in all (none included).
PackerOutputs ==
    {MethodsFrom(q, B, 1) : q \in SeqsUpTo(CandidateTexts, MaxYield),
                            B \in SUBSET (2..MaxYield)}

\* function* runPacker: everything the generator yields, in order.
RECURSIVE runPacker(_)
runPacker(methods) ==
    IF methods = <<>> THEN <<>>
    ELSE <<Head(methods).contents>> \o Reverse(Head(methods).result)
         \o runPacker(Tail(methods))

IsBetterByChars(output, obuf, t, b) ==
    t = None \/ JsLength(output) < JsLength(t[1])

IsBetterOrEqual(output, obuf, t, b) ==
    t = None \/ Len(obuf) <= Len(b[1])

\* The condition under which the loop replaces the retained candidate.
IsBetter(output, obuf, t, b) ==
    t = None \/ Len(obuf) < Len(b[1])

\* compressSource calls runPacker(source, {}).
CompressEnter ==
    /\ pc = "compressSource"
    /\ \E methods \in PackerOutputs : pending' = runPacker(methods)
    /\ pc' = "compressLoop"
    /\ UNCHANGED <<exitCode, logged, failed, buildDir, rd, shim, seen, text, buf,
                   stderr, html, wr, files, call, ret>>

\* One iteration of compressSource's for-of loop.
CompressIter ==
    /\ pc = "compressLoop"
    /\ pending # <<>>
    /\ LET output == Head(pending)
           obuf == BufferFromUtf8(output)
       IN  /\ IF IsBetter(output, obuf, text, buf)
              THEN text' = Some(output) /\ buf' = Some(obuf)
              ELSE UNCHANGED <<text, buf>>
           /\ seen' = Append(seen, output)
    /\ pending' = Tail(pending)
    /\ UNCHANGED <<pc, exitCode, logged, failed, buildDir, rd, shim, stderr, html,
                   wr, files, call, ret>>

\* The generator is exhausted: return { text, buf }.
CompressReturn ==
    /\ pc = "compressLoop"
    /\ pending = <<>>
    /\ pc' = "printStats"
    /\ UNCHANGED <<exitCode, logged, failed, buildDir, rd, shim, pending, seen,
                   text, buf, stderr, html, wr, files, call, ret>>

NoCall == [fn |-> "none"]
NoRet == [st |-> "none"]

InitSelect ==
    /\ pc = "compressSource"
    /\ exitCode = 0
    /\ logged = FALSE
    /\ failed = ""
    /\ buildDir = "dir"
    /\ rd = [src |-> "done", shim |-> "done"]
    /\ shim = <<>>
    /\ pending = <<>>
    /\ seen = <<>>
    /\ text = None
    /\ buf = None
    /\ stderr = <<>>
    /\ html = None
    /\ wr = [js |-> "idle", html |-> "idle"]
    /\ files = [js |-> [st |-> "absent", data |-> <<>>], html |-> [st |-> "absent", data |-> <<>>]]
    /\ call = NoCall
    /\ ret = NoRet

NextSelect == CompressEnter \/ CompressIter \/ CompressReturn

SpecSelect == InitSelect /\ [][NextSelect]_vars

\* The byte lengths of the candidates consumed so far.
ByteLen(s) == Len(BufferFromUtf8(s))
MinSeenLen == CHOOSE m \in {ByteLen(seen[i]) : i \in 1..Len(seen)} :
                  \A i \in 1..Len(seen) : m <= ByteLen(seen[i])
FirstMinIndex == CHOOSE i \in 1..Len(seen) :
                     /\ ByteLen(seen[i]) = MinSeenLen
                     /\ \A j \in 1..(i - 1) : ByteLen(seen[j]) # MinSeenLen

\* C1: after each candidate is consumed, and so at the return, the retained
\* buffer is no longer than the UTF-8 encoding of any candidate consumed so far.
SelectionMinimality ==
    (pc \in {"compressLoop", "printStats"} /\ seen # <<>>) =>
        /\ text # None /\ buf # None
        /\ buf[1] = BufferFromUtf8(text[1])
        /\ \A i \in 1..Len(seen) : Len(buf[1]) <= ByteLen(seen[i])

\* A non-monotone sequence has been consumed to the end: a later candidate is
\* longer than the retained one.
SelectionMinimalityWitness ==
    /\ pc = "printStats"
    /\ Len(seen) >= 3
    /\ ByteLen(seen[Len(seen)]) > Len(buf[1])
    /\ ByteLen(seen[1]) > Len(buf[1])

\* C2: the retained text is the earliest consumed candidate whose UTF-8 byte
\* length is the minimum; in particular a later candidate of equal byte
\* length never replaces it, whatever its character count.
FirstSeenMinimumWins ==
    (pc \in {"compressLoop", "printStats"} /\ seen # <<>>) =>
        /\ text = Some(seen[FirstMinIndex])
        /\ buf = Some(BufferFromUtf8(seen[FirstMinIndex]))

\* The one-character three-byte candidate was consumed first, the
\* three-character three-byte one later, and the first is returned.
FirstSeenMinimumWinsWitness ==
    /\ pc = "printStats"
    /\ Len(seen) >= 2
    /\ seen[1] = <<8364>>
    /\ seen[2] = <<97, 98, 99>>
    /\ text = Some(<<8364>>)

\* C3: with zero candidates compressSource fails; it returns nothing.
EmptySequenceFails ==
    (pc = "printStats" /\ seen = <<>>) => failed = "compressSource"

-----------------------------------------------------------------------------
(* escapeTextHTML *)

MaxTextLen == 4

\* The body of the replacer passed to text.replace: its switch on the match.
escapeReplacer(t) ==
    CASE t = <<38>> -> [ok |-> TRUE, val |-> <<38, 97, 109, 112, 59>>]   \* '&amp;'
      [] t = <<60>> -> [ok |-> TRUE, val |-> <<38, 108, 116, 59>>]       \* '&lt;'
      [] t = <<62>> -> [ok |-> TRUE, val |-> <<38, 103, 116, 59>>]       \* '&gt;'
      [] OTHER -> [ok |-> FALSE, err |-> "Unexpected text", arg |-> t]

\* The regular expression /&<>/g matches at i when the three characters
\* '&', '<', '>' stand there in a row; the match is those three characters.
escapeMatchAt(txt, i) ==
    /\ i + 2 <= Len(txt)
    /\ txt[i] = 38 /\ txt[i + 1] = 60 /\ txt[i + 2] = 62

\* text.replace(/&<>/g, replacer) from index i on: every match is handed to
\* the replacer, whose throw ends the call.
RECURSIVE escapeFrom(_, _)
escapeFrom(txt, i) ==
    IF i > Len(txt) THEN [ok |-> TRUE, val |-> <<>>]
    ELSE IF escapeMatchAt(txt, i)
         THEN LET r == escapeReplacer(SubSeq(txt, i, i + 2))
                  rest == escapeFrom(txt, i + 3)
              IN  IF ~r.ok THEN r
                  ELSE IF ~rest.ok THEN rest
                  ELSE [ok |-> TRUE, val |-> r.val \o rest.val]
         ELSE LET rest == escapeFrom(txt, i + 1)
              IN  IF ~rest.ok THEN rest
                  ELSE [ok |-> TRUE, val |-> <<txt[i]>> \o rest.val]

escapeTextHTML(txt) == escapeFrom(txt, 1)

\* '&', '<', '>' and 'a'; and "a<b>c&d".
EscapeChars == {38, 60, 62, 97}
EscapeInputs ==
    SeqsUpTo(EscapeChars, MaxTextLen) \cup {<<97, 60, 98, 62, 99, 38, 100>>}

\* What a call leaves in ret.
Outcome(r) ==
    IF r.ok THEN [st |-> "returned", val |-> r.val]
    ELSE [st |-> "threw", err |-> r.err, arg |-> r.arg]

MainIdle ==
    /\ pc = "idle"
    /\ exitCode = 0
    /\ logged = FALSE
    /\ failed = ""
    /\ buildDir = "dir"
    /\ rd = [src |-> "idle", shim |-> "idle"]
    /\ shim = <<>>
    /\ pending = <<>>
    /\ seen = <<>>
    /\ text = None
    /\ buf = None
    /\ stderr = <<>>
    /\ html = None
    /\ wr = [js |-> "idle", html |-> "idle"]
    /\ files = [js |-> [st |-> "absent", data |-> <<>>],
                html |-> [st |-> "absent", data |-> <<>>]]

InitEscape ==
    /\ MainIdle
    /\ call \in {[fn |-> "escapeTextHTML", text |-> t] : t \in EscapeInputs}
    /\ ret = NoRet

CallEscapeTextHTML ==
    /\ call.fn = "escapeTextHTML"
    /\ ret = NoRet
    /\ ret' = Outcome(escapeTextHTML(call.text))
    /\ UNCHANGED <<mainVars, call>>

SpecEscape == InitEscape /\ [][CallEscapeTextHTML]_vars

\* The text with each '&', '<' and '>' replaced by its entity.
RECURSIVE EntityEscaped(_)
EntityEscaped(s) ==
    IF s = <<>> THEN <<>>
    ELSE (CASE Head(s) = 38 -> <<38, 97, 109, 112, 59>>
            [] Head(s) = 60 -> <<38, 108, 116, 59>>
            [] Head(s) = 62 -> <<38, 103, 116, 59>>
            [] OTHER -> <<Head(s)>>) \o EntityEscaped(Tail(s))

\* C4: escapeTextHTML returns, without throwing, its argument with every
\* '&', '<' and '>' replaced by '&amp;', '&lt;' and '&gt;' and every other
\* character kept in place.
EscaperCorrect ==
    (call.fn = "escapeTextHTML" /\ ret # NoRet) =>
        ret = [st |-> "returned", val |-> EntityEscaped(call.text)]

-----------------------------------------------------------------------------
(* evalTemplate *)

MaxParts == 3

\* \w: [A-Za-z0-9_]
IsWordChar(c) ==
    \/ c \in 48..57
    \/ c \in 65..90
    \/ c = 95
    \/ c \in 97..122

\* /\{\{(\w+)\}\}/ tried at index i: the lengths n the group (\w+) can take
\* for the whole pattern to match there.
templateGroupLens(t, i) ==
    {n \in 1..Len(t) :
        /\ i + 3 + n <= Len(t)
        /\ t[i] = 123 /\ t[i + 1] = 123
        /\ \A k \in (i + 2)..(i + 1 + n) : IsWordChar(t[k])
        /\ t[i + 2 + n] = 125 /\ t[i + 3 + n] = 125}

\* variables.get(name): undefined when the key is absent.
MapGet(variables, name) ==
    IF name \in DOMAIN variables THEN variables[name] ELSE None

\* The replacer passed to template.replace.
templateReplacer(variables, name) ==
    LET value == MapGet(variables, name)
    IN  IF value = None
        THEN [ok |-> FALSE, err |-> "Template has undefined variable", arg |-> name]
        ELSE [ok |-> TRUE, val |-> value[1]]

RECURSIVE templateFromSkip(_, _, _)
templateFromSkip(t, variables, i) ==
    IF i > Len(t) THEN [ok |-> TRUE, val |-> <<>>]
    ELSE LET lens == templateGroupLens(t, i)
         IN  IF lens # {}
             THEN LET n == CHOOSE m \in lens : \A l \in lens : l <= m
                      r == templateReplacer(variables, SubSeq(t, i + 2, i + 1 + n))
                      rest == templateFromSkip(t, variables, i + n + 4)
                  IN  IF ~rest.ok THEN rest
                      ELSE IF ~r.ok
                           THEN [ok |-> TRUE, val |-> SubSeq(t, i, i + n + 3) \o rest.val]
                           ELSE [ok |-> TRUE, val |-> r.val \o rest.val]
             ELSE LET rest == templateFromSkip(t, variables, i + 1)
                  IN  IF ~rest.ok THEN rest
                      ELSE [ok |-> TRUE, val |-> <<t[i]>> \o rest.val]

RECURSIVE templateFromRescan(_, _, _, _)
templateFromRescan(t, variables, i, fuel) ==
    IF i > Len(t) THEN [ok |-> TRUE, val |-> <<>>]
    ELSE LET lens == templateGroupLens(t, i)
         IN  IF lens # {} /\ fuel > 0
             THEN LET n == CHOOSE m \in lens : \A l \in lens : l <= m
                      r == templateReplacer(variables, SubSeq(t, i + 2, i + 1 + n))
                  IN  IF ~r.ok THEN r
                      ELSE templateFromRescan(
                               r.val \o SubSeq(t, i + n + 4, Len(t)), variables, 1, fuel - 1)
             ELSE LET rest == templateFromRescan(t, variables, i + 1, fuel)
                  IN  IF ~rest.ok THEN rest
                      ELSE [ok |-> TRUE, val |-> <<t[i]>> \o rest.val]

\* template.replace(/\{\{(\w+)\}\}/g, replacer) from index i on: the leftmost
\* match with the longest group is replaced by what the replacer returns, and
\* the search goes on after the match; the replacer's throw ends the call.
RECURSIVE templateFrom(_, _, _)
templateFrom(t, variables, i) ==
    IF i > Len(t) THEN [ok |-> TRUE, val |-> <<>>]
    ELSE LET lens == templateGroupLens(t, i)
         IN  IF lens # {}
             THEN LET n == CHOOSE m \in lens : \A l \in lens : l <= m
                      r == templateReplacer(variables, SubSeq(t, i + 2, i + 1 + n))
                      rest == templateFrom(t, variables, i + n + 4)
                  IN  IF ~r.ok THEN r
                      ELSE IF ~rest.ok THEN rest
                      ELSE [ok |-> TRUE, val |-> r.val \o rest.val]
             ELSE LET rest == templateFrom(t, variables, i + 1)
                  IN  IF ~rest.ok THEN rest
                      ELSE [ok |-> TRUE, val |-> <<t[i]>> \o rest.val]

evalTemplateSkipMissing(template, variables) == templateFromSkip(template, variables, 1)

evalTemplateRescan(template, variables) ==
    templateFromRescan(template, variables, 1, Len(template))

evalTemplate(template, variables) == templateFrom(template, variables, 1)

\* Pieces of template text: "{{a}}", "{{b}}", "{{", "}}", "a", "{", "-".
TemplateTokens ==
    {<<123, 123, 97, 125, 125>>, <<123, 123, 98, 125, 125>>, <<123, 123>>,
     <<125, 125>>, <<97>>, <<123>>, <<45>>}
Templates == {Concat(parts) : parts \in SeqsUpTo(TemplateTokens, MaxParts)}

\* Variable maps: a value is Some(string), or None for null.
\*   a -> "x", b -> "{{a}}"      a -> "x"
\*   a -> null, b -> "y"         a -> "{{", b -> ""
VariableSets ==
    {(<<97>> :> Some(<<120>>)) @@ (<<98>> :> Some(<<123, 123, 97, 125, 125>>)),
     (<<97>> :> Some(<<120>>)),
     (<<97>> :> None) @@ (<<98>> :> Some(<<121>>)),
     (<<97>> :> Some(<<123, 123>>)) @@ (<<98>> :> Some(<<>>))}

InitTemplate ==
    /\ MainIdle
    /\ call \in {[fn |-> "evalTemplate", template |-> t, variables |-> v] :
                    t \in Templates, v \in VariableSets}
    /\ ret = NoRet

CallEvalTemplate ==
    /\ call.fn = "evalTemplate"
    /\ ret = NoRet
    /\ ret' = Outcome(evalTemplate(call.template, call.variables))
    /\ UNCHANGED <<mainVars, call>>

SpecTemplate == InitTemplate /\ [][CallEvalTemplate]_vars

\* The placeholder occurrences of t: the pairs <<i, j>> such that t[i..j] is
\* "{{", an identifier of one or more word characters, "}}".
Placeholders(t) ==
    UNION {{<<i, j>> : j \in {e \in (i + 4)..Len(t) :
                                 /\ t[e - 1] = 125 /\ t[e] = 125
                                 /\ \A k \in (i + 2)..(e - 2) : IsWordChar(t[k])}} :
           i \in {b \in 1..(Len(t) - 1) : t[b] = 123 /\ t[b + 1] = 123}}
Identifier(t, p) == SubSeq(t, p[1] + 2, p[2] - 2)
IsMissing(variables, name) ==
    name \notin DOMAIN variables \/ variables[name] = None
MissingPlaceholders(t, variables) ==
    {p \in Placeholders(t) : IsMissing(variables, Identifier(t, p))}

\* C5: a template with a placeholder whose identifier is absent from the
\* variables or mapped to null makes evalTemplate throw, whatever other
\* placeholders stand before or after it; the error carries the identifier of
\* such a placeholder (the leftmost one) and no string is returned.
MissingVariableFails ==
    (call.fn = "evalTemplate" /\ ret # NoRet
        /\ MissingPlaceholders(call.template, call.variables) # {}) =>
        /\ ret.st = "threw"
        /\ \E p \in MissingPlaceholders(call.template, call.variables) :
              /\ ret.arg = Identifier(call.template, p)
              /\ \A q \in MissingPlaceholders(call.template, call.variables) :
                    p[1] <= q[1]

\* A defined placeholder comes first, a missing one after it, and the call
\* has thrown.
MissingVariableFailsWitness ==
    /\ call.fn = "evalTemplate"
    /\ ret # NoRet
    /\ ret.st = "threw"
    /\ \E p \in Placeholders(call.template) :
          \E q \in MissingPlaceholders(call.template, call.variables) :
              /\ p[1] < q[1]
              /\ ~IsMissing(call.variables, Identifier(call.template, p))

\* The template with every placeholder occurrence replaced by its value and
\* every other character kept: character by character, the value where an
\* occurrence starts, nothing inside an occurrence, the character elsewhere.
Substituted(t, variables) ==
    LET P == Placeholders(t)
        starts == {p[1] : p \in P}
        inside == {i \in 1..Len(t) : \E p \in P : p[1] < i /\ i <= p[2]}
    IN  Concat([i \in 1..Len(t) |->
            IF i \in starts
            THEN LET p == CHOOSE q \in P : q[1] = i
                 IN  variables[Identifier(t, p)][1]
            ELSE IF i \in inside THEN <<>> ELSE <<t[i]>>])

\* C6: when every identifier the template refers to is present and not null,
\* evalTemplate returns the template with each placeholder occurrence
\* replaced by its value verbatim and the rest unchanged; a value is never
\* scanned for placeholders again.
SinglePassSubstitution ==
    (call.fn = "evalTemplate" /\ ret # NoRet
        /\ MissingPlaceholders(call.template, call.variables) = {}) =>
        ret = [st |-> "returned",
               val |-> Substituted(call.template, call.variables)]

\* The same identifier was substituted twice and the text returned holds a
\* placeholder of a defined identifier, left as it is.
SinglePassSubstitutionWitness ==
    /\ call.fn = "evalTemplate"
    /\ ret # NoRet
    /\ ret.st = "returned"
    /\ \E p, q \in Placeholders(call.template) :
          /\ p # q
          /\ Identifier(call.template, p) = Identifier(call.template, q)
    /\ \E r \in Placeholders(ret.val) :
          ~IsMissing(call.variables, Identifier(ret.val, r))

-----------------------------------------------------------------------------
(* makeBar and printStats *)

\* Maximum size of packed source.
sizeLimit == 1024

MaxColumns == 12
MaxOver == 3

\* A fraction is a record [num, den] with den > 0: printStats divides a
\* difference of byte counts by sizeLimit, which a double holds exactly.
\* Math.round(frac * scale): the nearest integer, a half going up.
mathRound(frac, scale) == (2 * frac.num * scale + frac.den) \div (2 * frac.den)

Max(a, b) == IF a >= b THEN a ELSE b
Min(a, b) == IF a <= b THEN a ELSE b

\* Math.max(10, process.stderr.columns || 80) - 2; ttyColumns = 0 stands for
\* a stream that has no columns (undefined) as well as for 0.
barColumns(ttyColumns) == Max(10, IF ttyColumns = 0 THEN 80 ELSE ttyColumns) - 2

barWidthUnclamped(frac, ttyColumns) ==
    mathRound(frac, barColumns(ttyColumns) * 8)

\* const bwidth = Math.min(columns * 8, Math.max(0, Math.round(frac * columns * 8)))
barWidth(frac, ttyColumns) ==
    Min(barColumns(ttyColumns) * 8,
        Max(0, mathRound(frac, barColumns(ttyColumns) * 8)))

\* barBlocks[i]: the array holds String.fromCodePoint(0x2589 + 6 - i) for
\* i = 0..6; any other index reads undefined.
barBlocks(i) == IF i \in 0..6 THEN Some(<<9609 + 6 - i>>) ELSE None

\* t += v: undefined is appended as the text 'undefined'.
AppendValue(t, v) ==
    IF v = None THEN t \o <<117, 110, 100, 101, 102, 105, 110, 101, 100>>
    ELSE t \o v[1]

Repeat(c, n) == [k \in 1..n |-> c]

makeBar(frac, ttyColumns) ==
    LET columns == barColumns(ttyColumns)
        bwidth == barWidth(frac, ttyColumns)
        fullBlocks == bwidth \div 8      \* bwidth >> 3
        fracBlock == bwidth % 8          \* bwidth & 7
        rule == Repeat(9472, columns)    \* '─'
        t1 == <<9484>> \o rule \o <<9488, 10, 9474>> \o Repeat(9608, fullBlocks)
        t2 == IF fracBlock # 0 THEN AppendValue(t1, barBlocks(fracBlock)) ELSE t1
        i == IF fracBlock # 0 THEN fullBlocks + 1 ELSE fullBlocks
        t3 == t2 \o Repeat(32, columns - i)
    IN  t3 \o <<9474, 10, 9492>> \o rule \o <<9496, 10>>

\* printStats(size): what it writes to process.stderr. (100 * frac).toFixed(1)
\* is kept as the number of tenths it prints.
printStats(size, ttyColumns) ==
    IF size > sizeLimit
    THEN LET frac == [num |-> size - sizeLimit, den |-> sizeLimit]
         IN  <<[kind |-> "size", size |-> size],
               [kind |-> "bar", style |-> "red.bgWhiteBright",
                text |-> makeBar(frac, ttyColumns)],
               [kind |-> "over", tenths |-> mathRound(frac, 1000)]>>
    ELSE LET frac == [num |-> sizeLimit - size, den |-> sizeLimit]
         IN  <<[kind |-> "size", size |-> size],
               [kind |-> "bar", style |-> "greenBright.bgBlue",
                text |-> makeBar(frac, ttyColumns)],
               [kind |-> "remaining", tenths |-> mathRound(frac, 1000)]>>

\* Numerators over sizeLimit: a little below 0 to a little above 1, and two
\* fractions far outside.
FracNums == ((0 - MaxOver)..(sizeLimit + MaxOver)) \cup {0 - sizeLimit, 3 * sizeLimit}

InitBar ==
    /\ MainIdle
    /\ call \in {[fn |-> "makeBar", frac |-> [num |-> n, den |-> sizeLimit],
                  columns |-> c] : n \in FracNums, c \in 0..MaxColumns}
    /\ ret = NoRet

CallMakeBar ==
    /\ call.fn = "makeBar"
    /\ ret = NoRet
    /\ ret' = [st |-> "returned",
               val |-> makeBar(call.frac, call.columns),
               bwidth |-> barWidth(call.frac, call.columns)]
    /\ UNCHANGED <<mainVars, call>>

SpecBar == InitBar /\ [][CallMakeBar]_vars

\* The middle row of a bar: what stands between the two side rules.
BarRow(t) ==
    LET sides == {k \in 1..Len(t) : t[k] = 9474}
        first == CHOOSE k \in sides : \A l \in sides : k <= l
        last == CHOOSE k \in sides : \A l \in sides : l <= k
    IN  SubSeq(t, first + 1, last - 1)

\* C8: for a fixed width W the number of filled sub-units never leaves
\* 0..W*8, is 0 at fraction 0 and W*8 at fraction 1, where every cell of the
\* row is a full block, and is no smaller than at any smaller fraction.
BarMonotoneWithEndpoints ==
    (call.fn = "makeBar" /\ ret # NoRet) =>
        LET W == barColumns(call.columns)
        IN  /\ ret.bwidth \in 0..(W * 8)
            /\ call.frac.num = 0 => ret.bwidth = 0
            /\ call.frac.num = call.frac.den =>
                  /\ ret.bwidth = W * 8
                  /\ BarRow(ret.val) = Repeat(9608, W)
            /\ \A g \in FracNums :
                  g <= call.frac.num =>
                      barWidth([num |-> g, den |-> call.frac.den], call.columns)
                          <= ret.bwidth

\* A fraction above 1 on a terminal wider than the minimum: the bar is full.
BarMonotoneWithEndpointsWitness ==
    /\ call.fn = "makeBar"
    /\ ret # NoRet
    /\ call.frac.num > call.frac.den
    /\ barColumns(call.columns) > 8
    /\ ret.bwidth = barColumns(call.columns) * 8

\* The glyph that is k eighths of a cell wide: U+258F is one eighth, U+2589
\* seven eighths.
EighthsGlyph(k) == 9616 - k

\* C9: the row holds exactly W cells: floor(s/8) full blocks, then, if and
\* only if k = s mod 8 is not 0, the glyph for k eighths, then blanks.
BarRowComposition ==
    (call.fn = "makeBar" /\ ret # NoRet) =>
        LET W == barColumns(call.columns)
            s == ret.bwidth
            k == s % 8
        IN  BarRow(ret.val) =
                Repeat(9608, s \div 8)
                \o (IF k # 0 THEN <<EighthsGlyph(k)>> ELSE <<>>)
                \o Repeat(32, W - (s \div 8) - (IF k # 0 THEN 1 ELSE 0))

-----------------------------------------------------------------------------
(* buildHTML, build and main *)

\* const title = 'Traveler'
title == <<84, 114, 97, 118, 101, 108, 101, 114>>

\* JSON.stringify of a string without control characters: quoted, with '"'
\* and '\' escaped by a backslash.
RECURSIVE jsonEscape(_)
jsonEscape(s) ==
    IF s = <<>> THEN <<>>
    ELSE (IF Head(s) \in {34, 92} THEN <<92, Head(s)>> ELSE <<Head(s)>>)
         \o jsonEscape(Tail(s))
jsonStringify(s) == <<34>> \o jsonEscape(s) \o <<34>>

\* The keys 'title_html', 'title_js' and 'code'.
KeyTitleHtml == <<116, 105, 116, 108, 101, 95, 104, 116, 109, 108>>
KeyTitleJs == <<116, 105, 116, 108, 101, 95, 106, 115>>
KeyCode == <<99, 111, 100, 101>>

\* The Map buildHTML passes to evalTemplate, given the escaped title.
buildVariables(titleHtml, source) ==
    (KeyTitleHtml :> Some(titleHtml))
    @@ (KeyTitleJs :> Some(jsonStringify(title)))
    @@ (KeyCode :> Some(source))

buildHTML(source, shimText) ==
    LET escaped == escapeTextHTML(title)
    IN  IF ~escaped.ok THEN escaped
        ELSE evalTemplate(shimText, buildVariables(escaped.val, source))

Placeholder(key) == <<123, 123>> \o key \o <<125, 125>>

\* What shim.html may hold: "<{{title_html}}>{{title_js}}{{code}}",
\* "{{code}}{{code}}", "{{code}}{{x}}{{code}}" and "a".
ShimTexts ==
    {<<60>> \o Placeholder(KeyTitleHtml) \o <<62>> \o Placeholder(KeyTitleJs)
         \o Placeholder(KeyCode),
     Placeholder(KeyCode) \o Placeholder(KeyCode),
     Placeholder(KeyCode) \o Placeholder(<<120>>) \o Placeholder(KeyCode),
     <<97>>}

\* process.stderr.columns during a run.
TtyColumns == {0, MaxColumns}

Absent == [st |-> "absent", data |-> <<>>]

Throw(stage) ==
    /\ pc' = "catch"
    /\ failed' = stage

\* mkdirExistOk: stat(path) and what follows from it.
MkdirStat ==
    /\ pc = "mkdirExistOk"
    /\ \/ /\ buildDir = "dir"          \* st.isDirectory(): return
          /\ pc' = "build"
          /\ UNCHANGED failed
       \/ /\ buildDir = "file"         \* not a directory: go on to mkdir
          /\ pc' = "mkdir"
          /\ UNCHANGED failed
       \/ /\ buildDir = "absent"       \* ENOENT is swallowed: go on to mkdir
          /\ pc' = "mkdir"
          /\ UNCHANGED failed
       \/ Throw("mkdirExistOk")        \* any other error of stat is rethrown
    /\ UNCHANGED <<exitCode, logged, buildDir, rd, shim, pending, seen, text, buf,
                   stderr, html, wr, files, call, ret>>

\* mkdirExistOk: await mkdir(path).
Mkdir ==
    /\ pc = "mkdir"
    /\ \/ /\ buildDir = "absent"
          /\ buildDir' = "dir"
          /\ pc' = "build"
          /\ UNCHANGED failed
       \/ /\ buildDir = "file"         \* EEXIST
          /\ Throw("mkdir")
          /\ UNCHANGED buildDir
       \/ /\ buildDir = "absent"       \* any other error of mkdir
          /\ Throw("mkdir")
          /\ UNCHANGED buildDir
    /\ UNCHANGED <<exitCode, logged, rd, shim, pending, seen, text, buf, stderr,
                   html, wr, files, call, ret>>

\* build: start the two readFile calls.
BuildStart ==
    /\ pc = "build"
    /\ rd' = [src |-> "pending", shim |-> "pending"]
    /\ pc' = "reading"
    /\ UNCHANGED <<exitCode, logged, failed, buildDir, shim, pending, seen, text,
                   buf, stderr, html, wr, files, call, ret>>

\* One readFile settles; Promise.all resolves when both have, and rejects
\* with the first failure.
ReadSettle ==
    /\ pc = "reading"
    /\ \E f \in {"src", "shim"} :
          /\ rd[f] = "pending"
          /\ \/ /\ rd' = [rd EXCEPT ![f] = "done"]
                /\ IF f = "shim"
                   THEN \E t \in ShimTexts : shim' = t
                   ELSE UNCHANGED shim
                /\ pc' = IF \A g \in {"src", "shim"} : rd'[g] = "done"
                         THEN "compressSource" ELSE pc
                /\ UNCHANGED failed
             \/ /\ rd' = [rd EXCEPT ![f] = "failed"]
                /\ Throw("readFile")
                /\ UNCHANGED shim
    /\ UNCHANGED <<exitCode, logged, buildDir, pending, seen, text, buf, stderr,
                   html, wr, files, call, ret>>

\* The packer throws while compressSource iterates over it.
PackerThrows ==
    /\ pc = "compressLoop"
    /\ Throw("compressSource")
    /\ UNCHANGED <<exitCode, logged, buildDir, rd, shim, pending, seen, text, buf,
                   stderr, html, wr, files, call, ret>>

\* printStats(buf.length): reading length of an undefined buf throws.
PrintStats ==
    /\ pc = "printStats"
    /\ IF buf = None
       THEN /\ Throw("printStats")
            /\ UNCHANGED stderr
       ELSE /\ \E c \in TtyColumns : stderr' = printStats(Len(buf[1]), c)
            /\ pc' = "buildHTML"
            /\ UNCHANGED failed
    /\ UNCHANGED <<exitCode, logged, buildDir, rd, shim, pending, seen, text, buf,
                   html, wr, files, call, ret>>

BuildHTMLKeepsTemplate ==
    /\ pc = "buildHTML"
    /\ LET r == buildHTML(text[1], shim)
       IN  IF r.ok
           THEN /\ html' = Some(r.val)
                /\ pc' = "write"
                /\ UNCHANGED failed
           ELSE /\ html' = Some(shim)
                /\ pc' = "write"
                /\ failed' = "buildHTML"
    /\ UNCHANGED <<exitCode, logged, buildDir, rd, shim, pending, seen, text, buf,
                   stderr, wr, files, call, ret>>

\* const html = buildHTML(text, shim)
BuildHTML ==
    /\ pc = "buildHTML"
    /\ LET r == buildHTML(text[1], shim)
       IN  IF r.ok
           THEN /\ html' = Some(r.val)
                /\ pc' = "write"
                /\ UNCHANGED failed
           ELSE /\ Throw("buildHTML")
                /\ UNCHANGED html
    /\ UNCHANGED <<exitCode, logged, buildDir, rd, shim, pending, seen, text, buf,
                   stderr, wr, files, call, ret>>

\* build: start the two writeFile calls.
StartWrites ==
    /\ pc = "write"
    /\ wr' = [js |-> "pending", html |-> "pending"]
    /\ pc' = "writing"
    /\ UNCHANGED <<exitCode, logged, failed, buildDir, rd, shim, pending, seen,
                   text, buf, stderr, html, files, call, ret>>

\* What a writeFile call puts on disk when it succeeds.
Written(f) ==
    IF f = "js" THEN [st |-> "complete", data |-> buf[1]]
    ELSE [st |-> "complete", data |-> html[1]]

\* What a writeFile call that fails or is cut off leaves: nothing, or a
\* file it had opened and not filled.
Unfinished == {Absent, [st |-> "partial", data |-> <<>>]}

\* One writeFile settles; Promise.all resolves when both have, and main
\* returns; it rejects with the first failure, after which the other call
\* may still settle.
WriteSettle ==
    /\ pc \in {"writing", "catch"}
    /\ \E f \in {"js", "html"} :
          /\ wr[f] = "pending"
          /\ \/ /\ wr' = [wr EXCEPT ![f] = "done"]
                /\ files' = [files EXCEPT ![f] = Written(f)]
                /\ pc' = IF pc = "writing" /\ \A g \in {"js", "html"} : wr'[g] = "done"
                         THEN "done" ELSE pc
                /\ UNCHANGED failed
             \/ /\ wr' = [wr EXCEPT ![f] = "failed"]
                /\ \E u \in Unfinished : files' = [files EXCEPT ![f] = u]
                /\ IF pc = "writing" THEN Throw("writeFile")
                   ELSE UNCHANGED <<pc, failed>>
    /\ UNCHANGED <<exitCode, logged, buildDir, rd, shim, pending, seen, text, buf,
                   stderr, html, call, ret>>

CatchWithoutExit ==
    /\ pc = "catch"
    /\ logged' = TRUE
    /\ pc' = "exited"
    /\ wr' = [f \in {"js", "html"} |-> IF wr[f] = "pending" THEN "aborted" ELSE wr[f]]
    /\ UNCHANGED <<exitCode, failed, buildDir, rd, shim, pending, seen, text, buf,
                   stderr, html, files, call, ret>>

\* main's catch block: console.error(e); process.exit(1). A writeFile call
\* still under way is cut off.
Catch ==
    /\ pc = "catch"
    /\ logged' = TRUE
    /\ exitCode' = 1
    /\ pc' = "exited"
    /\ wr' = [f \in {"js", "html"} |-> IF wr[f] = "pending" THEN "aborted" ELSE wr[f]]
    /\ \E ujs \in Unfinished, uhtml \in Unfinished :
          files' = [js |-> IF wr.js = "pending" THEN ujs ELSE files.js,
                    html |-> IF wr.html = "pending" THEN uhtml ELSE files.html]
    /\ UNCHANGED <<failed, buildDir, rd, shim, pending, seen, text, buf, stderr,
                   html, call, ret>>

\* main has returned and nothing is left to do: the process ends with the
\* exit code it has.
ProcessEnd ==
    /\ pc = "done"
    /\ pc' = "exited"
    /\ UNCHANGED <<exitCode, logged, failed, buildDir, rd, shim, pending, seen,
                   text, buf, stderr, html, wr, files, call, ret>>

Init ==
    /\ pc = "mkdirExistOk"
    /\ exitCode = 0
    /\ logged = FALSE
    /\ failed = ""
    /\ buildDir \in {"absent", "dir", "file"}
    /\ rd = [src |-> "idle", shim |-> "idle"]
    /\ shim = <<>>
    /\ pending = <<>>
    /\ seen = <<>>
    /\ text = None
    /\ buf = None
    /\ stderr = <<>>
    /\ html = None
    /\ wr = [js |-> "idle", html |-> "idle"]
    /\ files = [js |-> Absent, html |-> Absent]
    /\ call = NoCall
    /\ ret = NoRet

Next ==
    \/ MkdirStat
    \/ Mkdir
    \/ BuildStart
    \/ ReadSettle
    \/ CompressEnter
    \/ CompressIter
    \/ CompressReturn
    \/ PackerThrows
    \/ PrintStats
    \/ BuildHTML
    \/ StartWrites
    \/ WriteSettle
    \/ Catch
    \/ ProcessEnd

Spec == Init /\ [][Next]_vars

\* C7: once a stage has thrown, the run has nothing left to do but what is
\* left of the writes under way and the catch block, which is ready to run; a
\* process that has ended has status 1 and a logged error exactly when a
\* stage has thrown, and status 0 with both files written otherwise.
FailureExitsNonZero ==
    /\ failed # "" => pc \in {"catch", "exited"}
    /\ pc = "catch" => failed # "" /\ ENABLED Catch
    /\ pc = "exited" =>
          IF failed # "" THEN exitCode = 1 /\ logged
          ELSE exitCode = 0 /\ ~logged /\ wr = [js |-> "done", html |-> "done"]

\* A file stood where the build directory belongs: mkdir threw and the
\* process has exited with status 1.
FailureExitsNonZeroWitness ==
    /\ pc = "exited"
    /\ buildDir = "file"
    /\ failed = "mkdir"
    /\ exitCode = 1

\* C10: no writeFile call starts before compressSource has returned,
\* printStats has reported and buildHTML has returned the document; a run in
\* which one of these three throws writes nothing; and what is written is
\* the retained candidate's bytes and the fully substituted document,
\* whatever the report printed.
PipelineOrdering ==
    /\ stderr # <<>> =>
          /\ pc \notin {"compressSource", "compressLoop", "printStats"}
          /\ pending = <<>> /\ buf # None
          /\ stderr[1] = [kind |-> "size", size |-> Len(buf[1])]
    /\ html # None => stderr # <<>> /\ pc # "buildHTML"
    /\ (wr.js # "idle" \/ wr.html # "idle" \/ files # [js |-> Absent, html |-> Absent]) =>
          /\ pending = <<>> /\ seen # <<>> /\ buf # None
          /\ stderr # <<>>
          /\ html # None
          /\ LET r == buildHTML(text[1], shim)
             IN  r.ok /\ html = Some(r.val)
    /\ failed \in {"compressSource", "printStats", "buildHTML"} =>
          /\ wr = [js |-> "idle", html |-> "idle"]
          /\ files = [js |-> Absent, html |-> Absent]
    /\ files.js.st = "complete" =>
          files.js.data = BufferFromUtf8(seen[FirstMinIndex])
    /\ files.html.st = "complete" =>
          /\ MissingPlaceholders(shim, buildVariables(title, text[1])) = {}
          /\ files.html.data = Substituted(shim, buildVariables(title, text[1]))

\* Template evaluation threw after the report was printed, and the process
\* has exited with nothing written.
PipelineOrderingWitness ==
    /\ pc = "exited"
    /\ failed = "buildHTML"
    /\ stderr # <<>>
    /\ files = [js |-> Absent, html |-> Absent]

====
